---------------------------- MODULE Spec2Model ----------------------------
(***************************************************************************)
(* A model of scraper.py (Mestre Parrilleros): the retry wrapper, the      *)
(* catalog crawl, the category walker, page extraction with price          *)
(* cleaning, and the PostgreSQL upsert.                                    *)
(*                                                                         *)
(* Texts are TLA+ strings; a price value is kept in centavos (an integer)  *)
(* so that no floating point is needed.                                    *)
(***************************************************************************)
EXTENDS Integers, Sequences, FiniteSets, TLC

\* None for a text
Nulo == "<nulo>"

\* None and a present value, for a number
Nenhum == << >>

Algum(v) == << v >>

(***************************************************************************)
(* Bounds of the model.                                                    *)
(***************************************************************************)
\* the default of the walker's max_paginas argument (20), scaled down
MaxPaginas == 2
\* the largest max_paginas argument of a walker called on its own
MaxTeto == 3
\* the longest price text drawn from the alphabet
MaxTexto == 4
\* salvar_postgres calls in one run of the store
MaxChamadas == 3

(***************************************************************************)
(* Program constants.                                                      *)
(***************************************************************************)
MAX_RETRIES == 3
\* VARCHAR widths of the table
LarguraProdutoId == 100
LarguraSku == 100
LarguraNome == 500
LarguraPrecoTexto == 50
LarguraCategoria == 200
LarguraStatus == 50
\* DECIMAL(10, 2): the integer part has at most 8 digits
LimitePrecoValor == 100000000

\* the categories walked (two of the entries of CATEGORIAS)
CATEGORIAS == << [nome |-> "Bancada", url |-> "https://loja/bancada"],
                 [nome |-> "Acessorios", url |-> "https://loja/acessorios"] >>

(***************************************************************************)
(* Text helpers: what the regular expressions and string methods do.       *)
(***************************************************************************)
Digitos == {"0", "1", "2", "3", "4", "5", "6", "7", "8", "9"}

EhEspaco(c) == c \in {" ", "\t", "\n", "\r"}

Car(s, i) == SubSeq(s, i, i)

Resto(s, i) == SubSeq(s, i, Len(s))

RECURSIVE LStrip(_)
LStrip(s) ==
    IF s = "" THEN ""
    ELSE IF EhEspaco(Car(s, 1)) THEN LStrip(Resto(s, 2)) ELSE s

RECURSIVE RStrip(_)
RStrip(s) ==
    IF s = "" THEN ""
    ELSE IF EhEspaco(Car(s, Len(s))) THEN RStrip(SubSeq(s, 1, Len(s) - 1)) ELSE s

\* str.strip() / String.prototype.trim()
Strip(s) == RStrip(LStrip(s))

\* number of leading whitespace characters
RECURSIVE NumEspacos(_)
NumEspacos(s) ==
    IF s = "" THEN 0
    ELSE IF EhEspaco(Car(s, 1)) THEN 1 + NumEspacos(Resto(s, 2)) ELSE 0

\* length of the match of R\$\s*R\$ at the start of s, 0 when there is none
CasaRSRS(s) ==
    IF Len(s) >= 2 /\ SubSeq(s, 1, 2) = "R$"
    THEN LET k == NumEspacos(Resto(s, 3))
         IN  IF Len(s) >= 4 + k /\ SubSeq(s, 3 + k, 4 + k) = "R$" THEN 4 + k ELSE 0
    ELSE 0

\* re.sub(r'R\$\s*R\$', 'R$', s)
RECURSIVE SubRSRS(_)
SubRSRS(s) ==
    IF s = "" THEN ""
    ELSE LET m == CasaRSRS(s)
         IN  IF m > 0 THEN "R$" \o SubRSRS(Resto(s, m + 1))
             ELSE Car(s, 1) \o SubRSRS(Resto(s, 2))

\* re.sub(r'\s+', ' ', s)
RECURSIVE SubEspacos(_)
SubEspacos(s) ==
    IF s = "" THEN ""
    ELSE LET k == NumEspacos(s)
         IN  IF k > 0 THEN " " \o SubEspacos(Resto(s, k + 1))
             ELSE Car(s, 1) \o SubEspacos(Resto(s, 2))

\* length of the longest prefix of s made of digits and dots
RECURSIVE NumDigPonto(_)
NumDigPonto(s) ==
    IF s = "" THEN 0
    ELSE IF Car(s, 1) \in Digitos \cup {"."} THEN 1 + NumDigPonto(Resto(s, 2)) ELSE 0

\* length of the match of [\d.]+,\d{2} at the start of s, 0 when there is none
CasaValor(s) ==
    LET k == NumDigPonto(s)
    IN  IF /\ k >= 1
           /\ Len(s) >= k + 3
           /\ Car(s, k + 1) = ","
           /\ Car(s, k + 2) \in Digitos
           /\ Car(s, k + 3) \in Digitos
        THEN k + 3 ELSE 0

\* re.search(r'([\d.]+,\d{2})', s): the leftmost match, Nulo when there is none
RECURSIVE BuscaValor(_)
BuscaValor(s) ==
    IF s = "" THEN Nulo
    ELSE LET m == CasaValor(s)
         IN  IF m > 0 THEN SubSeq(s, 1, m) ELSE BuscaValor(Resto(s, 2))

ValorDigito(c) ==
    CASE c = "0" -> 0 [] c = "1" -> 1 [] c = "2" -> 2 [] c = "3" -> 3
      [] c = "4" -> 4 [] c = "5" -> 5 [] c = "6" -> 6 [] c = "7" -> 7
      [] c = "8" -> 8 [] c = "9" -> 9

\* float(valor_str.replace('.', '').replace(',', '.')), in centavos
RECURSIVE Centavos(_, _)
Centavos(s, acc) ==
    IF s = "" THEN acc
    ELSE IF Car(s, 1) \in Digitos
         THEN Centavos(Resto(s, 2), 10 * acc + ValorDigito(Car(s, 1)))
         ELSE Centavos(Resto(s, 2), acc)

\* the text of the match, Nulo when the search finds none or is not reached
valor_str(texto) ==
    IF texto = "" \/ texto = "Consultar" THEN Nulo
    ELSE BuscaValor(Strip(SubEspacos(SubRSRS(texto))))

\* valor_str.replace('.', '').replace(',', '.')
RECURSIVE TextoDoFloat(_)
TextoDoFloat(s) ==
    IF s = "" THEN ""
    ELSE IF Car(s, 1) = "." THEN TextoDoFloat(Resto(s, 2))
    ELSE IF Car(s, 1) = "," THEN "." \o TextoDoFloat(Resto(s, 2))
    ELSE Car(s, 1) \o TextoDoFloat(Resto(s, 2))

RECURSIVE NumDigitos(_)
NumDigitos(s) ==
    IF s = "" THEN 0
    ELSE IF Car(s, 1) \in Digitos THEN 1 + NumDigitos(Resto(s, 2)) ELSE 0

\* float(t) returns: t is digits, an optional point, digits, with a digit
\* somewhere; anything else raises ValueError
FloatAceita(t) ==
    LET k == NumDigitos(t)
        r == Resto(t, k + 1)
    IN  IF r = "" THEN k > 0
        ELSE /\ Car(r, 1) = "."
             /\ NumDigitos(Resto(r, 2)) = Len(r) - 1
             /\ k + Len(r) - 1 > 0

limpar_preco(preco_str) ==
    IF preco_str = "" \/ preco_str = "Consultar"
    THEN [texto |-> "Consultar", valor |-> Nenhum]
    ELSE LET preco_limpo == Strip(SubEspacos(SubRSRS(preco_str)))
             match == BuscaValor(preco_limpo)
         IN  IF match # Nulo
             THEN [texto |-> preco_limpo, valor |-> Algum(Centavos(match, 0))]
             ELSE [texto |-> preco_limpo, valor |-> Nenhum]


(***************************************************************************)
(* The rendered listing page: a sequence of '.listagem-item' elements.     *)
(* An element gives the texts and attributes the in-page script reads      *)
(* (Nulo: the sub-element is absent); lanca marks an element whose         *)
(* processing throws inside the script's try block.                        *)
(***************************************************************************)
ItemValido ==
    [nomeEl |-> "  Parrilla Pro \n", href |-> "https://loja/p1",
     precoVenda |-> " 1.510,40 ", precoParcela |-> Nulo,
     imgSrc |-> "", imgDataSrc |-> "https://cdn/p1.jpg",
     dataId |-> "", classeId |-> "101", skuEl |-> " SKU1 ", lanca |-> FALSE]

ItemParcelado ==
    [nomeEl |-> "Grelha Inox", href |-> "https://loja/p2",
     precoVenda |-> Nulo, precoParcela |-> "R$ R$  89,90",
     imgSrc |-> "https://cdn/p2.jpg", imgDataSrc |-> "",
     dataId |-> "202", classeId |-> "", skuEl |-> Nulo, lanca |-> FALSE]

ItemSemNome == [ItemValido EXCEPT !.nomeEl = Nulo]

ItemNomeBranco == [ItemValido EXCEPT !.nomeEl = " \n "]

ItemSemLink == [ItemParcelado EXCEPT !.href = ""]

ItemQuebrado == [ItemParcelado EXCEPT !.lanca = TRUE]

\* the k-th of a row of complete elements
ItemNumero(k) ==
    [ItemValido EXCEPT !.nomeEl = "Faca " \o ToString(k),
                       !.href = "https://loja/v" \o ToString(k),
                       !.classeId = ToString(400 + k)]

\* a listing of the complete elements de..ate
RECURSIVE Vitrine(_, _)
Vitrine(de, ate) ==
    IF de > ate THEN << >>
    ELSE << ItemNumero(de) >> \o Vitrine(de + 1, ate)

\* the listings of a store with 20 and 5 elements on the two pages of one
\* category and 10 on the page of another
Vitrine20 == Vitrine(1, 20)

Vitrine5 == Vitrine(21, 25)

Vitrine10 == Vitrine(26, 35)

\* the documents a navigation may render: an empty listing, a listing of
\* elements none of which is complete, and listings where complete
\* elements stand before, between and after incomplete or broken ones
Doms ==
    { << >>,
      << ItemSemNome, ItemSemLink >>,
      << ItemValido >>,
      << ItemNomeBranco, ItemValido, ItemQuebrado >>,
      << ItemValido, ItemSemLink, ItemParcelado >> }

\* the documents page n of category i may render: any of the above, and
\* for the store of 20, 5 and 10 elements the listing of that page
DomsDe(i, n) ==
    Doms \cup (IF i = 1 /\ n = 1 THEN {Vitrine20}
               ELSE IF i = 1 /\ n = 2 THEN {Vitrine5}
               ELSE IF i = 2 /\ n = 1 THEN {Vitrine10}
               ELSE {})

\* x || y of JavaScript, for texts ('' and null are falsy)
Ou(x, y) == IF x = Nulo \/ x = "" THEN y ELSE x

\* el?.textContent?.trim()
TextoAparado(el) == IF el = Nulo THEN Nulo ELSE Strip(el)

\* a plausible slip: `nome || link`
AceitoOu(nome, link) == nome # "" \/ link # ""

\* `if (nome && link)`
Aceito(nome, link) == nome # "" /\ link # ""

\* the body of productElements.forEach: the records one element adds to items
ExtrairItem(product) ==
    IF product.lanca THEN << >>
    ELSE LET nome == Ou(TextoAparado(product.nomeEl), "")
             link == Ou(product.href, "")
             precoV == IF product.precoVenda # Nulo
                       THEN "R$ " \o Strip(product.precoVenda) ELSE ""
             preco == IF precoV = "" /\ product.precoParcela # Nulo
                      THEN Strip(product.precoParcela) ELSE precoV
             imagem == Ou(product.imgSrc, Ou(product.imgDataSrc, ""))
             prodId == Ou(product.dataId, Ou(product.classeId, ""))
             sku == Ou(TextoAparado(product.skuEl), "")
         IN  IF Aceito(nome, link)
             THEN << [nome |-> nome, link |-> link,
                      preco |-> Ou(preco, "Consultar"), imagem |-> imagem,
                      sku |-> sku, id |-> prodId,
                      metodo_extracao |-> ".listagem-item"] >>
             ELSE << >>

\* the in-page script: items of every element, in document order
RECURSIVE ExtrairItens(_)
ExtrairItens(d) ==
    IF d = << >> THEN << >> ELSE ExtrairItem(Head(d)) \o ExtrairItens(Tail(d))

\* datetime.now().isoformat()
AgoraIso == "2025-01-27T10:00:00"

\* the Python loop over the script's result ('Disponível' is written
\* without its accent)
Enriquecer(produto, categoria_nome) ==
    LET preco_info == limpar_preco(produto.preco)
    IN  [nome |-> produto.nome, link |-> produto.link,
         preco |-> produto.preco, imagem |-> produto.imagem,
         sku |-> produto.sku, id |-> produto.id,
         metodo_extracao |-> produto.metodo_extracao,
         categoria |-> categoria_nome,
         preco_texto |-> preco_info.texto, preco_valor |-> preco_info.valor,
         data_scraping |-> AgoraIso, status |-> "Disponivel"]

RECURSIVE EnriquecerTodos(_, _)
EnriquecerTodos(produtos, categoria_nome) ==
    IF produtos = << >> THEN << >>
    ELSE << Enriquecer(Head(produtos), categoria_nome) >>
         \o EnriquecerTodos(Tail(produtos), categoria_nome)

extrair_produtos_pagina(d, categoria_nome) ==
    EnriquecerTodos(ExtrairItens(d), categoria_nome)

\* leitura: the number page.evaluate returned to the detector, Nenhum when
\* the evaluation raised
detectar_total_paginas(leitura) ==
    IF leitura = Nenhum THEN 1 ELSE IF leitura[1] > 1 THEN leitura[1] ELSE 1

Min(a, b) == IF a < b THEN a ELSE b

\* the URL the walker visits for page n of a category
UrlPagina(url_base, n) ==
    IF n > 1 THEN url_base \o "?pagina=" \o ToString(n) ELSE url_base

\* produto['fonte'] = url_atual
FonteEm(produto, url_atual) ==
    [nome |-> produto.nome, link |-> produto.link,
     preco |-> produto.preco, imagem |-> produto.imagem,
     sku |-> produto.sku, id |-> produto.id,
     metodo_extracao |-> produto.metodo_extracao,
     categoria |-> produto.categoria, preco_texto |-> produto.preco_texto,
     preco_valor |-> produto.preco_valor,
     data_scraping |-> produto.data_scraping, status |-> produto.status,
     fonte |-> url_atual]

\* produto['fonte'] = url_atual, for every record of the page
RECURSIVE ComFonte(_, _)
ComFonte(produtos, url_atual) ==
    IF produtos = << >> THEN << >>
    ELSE << FonteEm(Head(produtos), url_atual) >>
         \o ComFonte(Tail(produtos), url_atual)


(***************************************************************************)
(* Timestamps: datetime.fromisoformat(text.replace('Z', '+00:00')).  The   *)
(* forms read are those every Python 3 version reads: YYYY-MM-DD,          *)
(* optionally followed by a separator and HH:MM:SS, by .ffffff and by a    *)
(* +HH:MM or -HH:MM offset.  Any other text is taken to raise ValueError;  *)
(* the batches below carry no text that only newer versions read.          *)
(***************************************************************************)
EhNumero(s) == \A i \in 1..Len(s) : Car(s, i) \in Digitos

NumeroDe(s) == Centavos(s, 0)

\* text.replace('Z', '+00:00')
RECURSIVE SubstituirZ(_)
SubstituirZ(s) ==
    IF s = "" THEN ""
    ELSE (IF Car(s, 1) = "Z" THEN "+00:00" ELSE Car(s, 1))
         \o SubstituirZ(Resto(s, 2))

Bissexto(a) == a % 4 = 0 /\ (a % 100 # 0 \/ a % 400 = 0)

DiasNoMes(a, m) ==
    IF m = 2 THEN (IF Bissexto(a) THEN 29 ELSE 28)
    ELSE IF m \in {4, 6, 9, 11} THEN 30 ELSE 31

ErroIso == [ok |-> FALSE]

DataValida(s) ==
    /\ EhNumero(SubSeq(s, 1, 4)) /\ Car(s, 5) = "-"
    /\ EhNumero(SubSeq(s, 6, 7)) /\ Car(s, 8) = "-"
    /\ EhNumero(SubSeq(s, 9, 10))
    /\ NumeroDe(SubSeq(s, 1, 4)) >= 1
    /\ NumeroDe(SubSeq(s, 6, 7)) \in 1..12
    /\ NumeroDe(SubSeq(s, 9, 10)) \in
          1..DiasNoMes(NumeroDe(SubSeq(s, 1, 4)), NumeroDe(SubSeq(s, 6, 7)))

\* s: HH:MM:SS
HoraValida(s) ==
    /\ EhNumero(SubSeq(s, 1, 2)) /\ Car(s, 3) = ":"
    /\ EhNumero(SubSeq(s, 4, 5)) /\ Car(s, 6) = ":"
    /\ EhNumero(SubSeq(s, 7, 8))
    /\ NumeroDe(SubSeq(s, 1, 2)) < 24
    /\ NumeroDe(SubSeq(s, 4, 5)) < 60
    /\ NumeroDe(SubSeq(s, 7, 8)) < 60

\* s: .ffffff
FracaoValida(s) == Car(s, 1) = "." /\ EhNumero(SubSeq(s, 2, 7))

\* s: +HH:MM or -HH:MM
FusoValido(s) ==
    /\ Car(s, 1) \in {"+", "-"}
    /\ EhNumero(SubSeq(s, 2, 3)) /\ Car(s, 4) = ":"
    /\ EhNumero(SubSeq(s, 5, 6))
    /\ NumeroDe(SubSeq(s, 2, 3)) < 24
    /\ NumeroDe(SubSeq(s, 5, 6)) < 60

MinutosDoFuso(s) ==
    (IF Car(s, 1) = "-" THEN -1 ELSE 1)
    * (60 * NumeroDe(SubSeq(s, 2, 3)) + NumeroDe(SubSeq(s, 5, 6)))

fromisoformat(s) ==
    LET n == Len(s)
        temHora == n >= 19
        temFracao == n \in {26, 32}
        temFuso == n \in {25, 32}
        fuso == SubSeq(s, n - 5, n)
    IN  IF /\ n \in {10, 19, 25, 26, 32}
           /\ DataValida(s)
           /\ (temHora => HoraValida(SubSeq(s, 12, 19)))
           /\ (temFracao => FracaoValida(SubSeq(s, 20, 26)))
           /\ (temFuso => FusoValido(fuso))
        THEN [ok |-> TRUE,
              ano |-> NumeroDe(SubSeq(s, 1, 4)),
              mes |-> NumeroDe(SubSeq(s, 6, 7)),
              dia |-> NumeroDe(SubSeq(s, 9, 10)),
              hora |-> IF temHora THEN NumeroDe(SubSeq(s, 12, 13)) ELSE 0,
              minuto |-> IF temHora THEN NumeroDe(SubSeq(s, 15, 16)) ELSE 0,
              segundo |-> IF temHora THEN NumeroDe(SubSeq(s, 18, 19)) ELSE 0,
              micro |-> IF temFracao THEN NumeroDe(SubSeq(s, 21, 26)) ELSE 0,
              fuso |-> IF temFuso THEN Algum(MinutosDoFuso(fuso)) ELSE Nenhum]
        ELSE ErroIso

\* the value bound to the data_scraping parameter: the parsed text, or the
\* value itself when it is no text (None)
SemData == [ok |-> TRUE, ausente |-> TRUE]

ConverterData(data_scraping) ==
    IF data_scraping = Nulo THEN SemData
    ELSE fromisoformat(SubstituirZ(data_scraping))

(***************************************************************************)
(* The table produtos and the upsert statement.  A table is the sequence   *)
(* of its rows; the surrogate key id is read by no statement and is left   *)
(* out.  CURRENT_TIMESTAMP is the start time of the transaction: every     *)
(* statement of one batch sees the same value.                             *)
(***************************************************************************)
\* produto.get(chave, padrao)
Get(produto, chave, padrao) ==
    IF chave \in DOMAIN produto THEN produto[chave] ELSE padrao

\* the parameters of cursor.execute(upsert_sql, (...))
Parametros(produto, data) ==
    [produto_id |-> Get(produto, "id", ""),
     sku |-> Get(produto, "sku", ""),
     nome |-> Get(produto, "nome", ""),
     preco_texto |-> Get(produto, "preco_texto", ""),
     preco_valor |-> Get(produto, "preco_valor", Nenhum),
     imagem |-> Get(produto, "imagem", ""),
     link |-> Get(produto, "link", ""),
     categoria |-> Get(produto, "categoria", ""),
     status |-> Get(produto, "status", "Disponivel"),
     fonte |-> Get(produto, "fonte", ""),
     data_scraping |-> data]

\* a text that does not fit VARCHAR(n)
LongoDemais(texto, n) == texto # Nulo /\ Len(texto) > n

\* the statement violates a column type or a NOT NULL constraint
RejeitadoPeloBanco(par) ==
    \/ LongoDemais(par.produto_id, LarguraProdutoId)
    \/ LongoDemais(par.sku, LarguraSku)
    \/ LongoDemais(par.nome, LarguraNome)
    \/ LongoDemais(par.preco_texto, LarguraPrecoTexto)
    \/ LongoDemais(par.categoria, LarguraCategoria)
    \/ LongoDemais(par.status, LarguraStatus)
    \/ par.preco_valor # Nenhum /\ par.preco_valor[1] \div 100 >= LimitePrecoValor
    \/ par.nome = Nulo
    \/ par.link = Nulo

\* the index of the row with this link, 0 when there is none
LinhaDe(t, link) ==
    IF \E i \in 1..Len(t) : t[i].link = link
    THEN CHOOSE i \in 1..Len(t) : t[i].link = link
    ELSE 0

\* INSERT ... VALUES (...), with the column defaults
LinhaNova(par, agora) ==
    [produto_id |-> par.produto_id, sku |-> par.sku, nome |-> par.nome,
     preco_texto |-> par.preco_texto, preco_valor |-> par.preco_valor,
     imagem |-> par.imagem, link |-> par.link, categoria |-> par.categoria,
     status |-> par.status, fonte |-> par.fonte,
     data_scraping |-> par.data_scraping,
     criado_em |-> agora, atualizado_em |-> agora]

\* a plausible slip: a column left out of the SET list
LinhaAtualizadaSemSku(linha, par, agora) ==
    [linha EXCEPT !.produto_id = par.produto_id,
                  !.nome = par.nome, !.preco_texto = par.preco_texto,
                  !.preco_valor = par.preco_valor, !.imagem = par.imagem,
                  !.categoria = par.categoria, !.status = par.status,
                  !.fonte = par.fonte, !.data_scraping = par.data_scraping,
                  !.atualizado_em = agora]

\* a plausible slip: INSERT OR REPLACE semantics, the row is written anew
LinhaAtualizadaRecriada(linha, par, agora) == LinhaNova(par, agora)

\* ON CONFLICT (link) DO UPDATE SET ...
LinhaAtualizada(linha, par, agora) ==
    [linha EXCEPT !.produto_id = par.produto_id, !.sku = par.sku,
                  !.nome = par.nome, !.preco_texto = par.preco_texto,
                  !.preco_valor = par.preco_valor, !.imagem = par.imagem,
                  !.categoria = par.categoria, !.status = par.status,
                  !.fonte = par.fonte, !.data_scraping = par.data_scraping,
                  !.atualizado_em = agora]

\* a plausible slip: a plain INSERT into a table without the UNIQUE(link)
\* constraint
UpsertSempreInsere(t, par, agora) ==
    [tabela |-> Append(t, LinhaNova(par, agora)), inserted |-> TRUE]

\* the upsert statement on table t: the new table and the value of
\* RETURNING (xmax = 0) AS inserted
Upsert(t, par, agora) ==
    LET i == LinhaDe(t, par.link)
    IN  IF i = 0
        THEN [tabela |-> Append(t, LinhaNova(par, agora)), inserted |-> TRUE]
        ELSE [tabela |-> [t EXCEPT ![i] = LinhaAtualizada(t[i], par, agora)],
              inserted |-> FALSE]

(***************************************************************************)
(* The body of `for produto in produtos` in salvar_postgres.  b is the     *)
(* state of the batch: the table as the open transaction sees it, whether  *)
(* the transaction is in the failed state, and the three counters.  A      *)
(* statement that the store rejects leaves the transaction failed; until   *)
(* the end of the transaction every further statement is rejected too.     *)
(***************************************************************************)
ComErro(b, efeito) ==
    [b EXCEPT !.erros = b.erros + 1, !.efeito = efeito]

\* a plausible slip: the text is handed to the store unparsed, and the
\* store rejects a malformed one
ErroDeDataNoBanco(b) ==
    [b EXCEPT !.erros = b.erros + 1, !.efeito = "erro_data", !.falhou = TRUE]

\* datetime.fromisoformat raised: counted, the statement is never sent
ErroDeData(b) == ComErro(b, "erro_data")

ProcessarProduto(b, produto, agora) ==
    LET data == ConverterData(Get(produto, "data_scraping", Nulo))
        par == Parametros(produto, data)
    IN  IF ~data.ok THEN ErroDeData(b)
        ELSE IF b.falhou THEN ComErro(b, "erro_transacao")
        ELSE IF RejeitadoPeloBanco(par)
             THEN [ComErro(b, "erro_banco") EXCEPT !.falhou = TRUE]
        ELSE LET r == Upsert(b.tx, par, agora)
             IN  IF r.inserted
                 THEN [b EXCEPT !.tx = r.tabela, !.efeito = "inserido",
                                !.inseridos = b.inseridos + 1]
                 ELSE [b EXCEPT !.tx = r.tabela, !.efeito = "atualizado",
                                !.atualizados = b.atualizados + 1]

\* conn.commit(): a failed transaction is rolled back by the server
Commit(t, b) == IF b.falhou THEN t ELSE b.tx

(***************************************************************************)
(* The records handed to salvar_postgres.  main hands over what the crawl  *)
(* returned; a later run finds the same links with other field values.     *)
(***************************************************************************)
Registro(item, categoria) ==
    ComFonte(extrair_produtos_pagina(<< item >>, categoria.nome),
             UrlPagina(categoria.url, 1))[1]

\* a listing element whose price text runs on with the instalment terms
ItemPrecoLongo ==
    [ItemValido EXCEPT
        !.precoVenda = Nulo,
        !.precoParcela = "R$ 1.510,40 ou 12x de R$ 125,87 sem juros no cartao"]

ProdA1 == Registro(ItemValido, CATEGORIAS[1])

\* the link of ProdA1 as a later run finds it: every other field differs
ProdA2 ==
    [ProdA1 EXCEPT !.id = "911", !.sku = "SKU9", !.nome = "Parrilla Pro II",
               !.preco_texto = "R$ 1.699,00", !.preco_valor = Algum(169900),
               !.imagem = "https://cdn/p1b.jpg", !.categoria = "Acessorios",
               !.status = "Esgotado", !.fonte = "https://loja/acessorios",
               !.data_scraping = "2025-01-28T11:30:00Z"]

ProdB1 == Registro(ItemParcelado, CATEGORIAS[2])

\* the link of ProdB1 with a timestamp fromisoformat cannot read
ProdDataRuim ==
    [ProdB1 EXCEPT !.nome = "Grelha Inox G",
                   !.data_scraping = "27/01/2025 10:00"]

\* the link of ProdA1 with a price text wider than the column preco_texto
ProdPrecoLongo == Registro(ItemPrecoLongo, CATEGORIAS[1])

\* a record with none of the optional keys
ProdMinimo == [nome |-> "Espeto", link |-> "https://loja/p2"]

\* five records with links of their own, the third with a bad timestamp
NovoRegistro(k) ==
    [ProdB1 EXCEPT !.id = ToString(300 + k), !.nome = "Faca " \o ToString(k),
               !.link = "https://loja/e" \o ToString(k)]

LoteExemplo ==
    << NovoRegistro(1), NovoRegistro(2),
       [NovoRegistro(3) EXCEPT !.data_scraping = "2025-13-45 99:00"],
       NovoRegistro(4), NovoRegistro(5) >>

\* the batches a caller may pass: the empty one, single records, a link
\* repeated within the batch, a record that fails before, between and after
\* records that do not, a record without the optional keys, and the five
\* new records
Lotes ==
    {<< >>, << ProdA1 >>, << ProdA2 >>, << ProdA1, ProdA2 >>,
     << ProdDataRuim, ProdA2 >>,
     << ProdB1, ProdDataRuim, ProdA1 >>,
     << ProdA1, ProdPrecoLongo, ProdB1 >>,
     << ProdB1, ProdA2, ProdPrecoLongo >>,
     << ProdMinimo >>, LoteExemplo}

Links ==
    UNION {{Get(lt[i], "link", "") : i \in 1..Len(lt)} : lt \in Lotes}

(***************************************************************************)
(* State of one run of scrape_com_retry.                                   *)
(***************************************************************************)
VARIABLES
    pc,                 \* where the run is
    tentativa,          \* scrape_com_retry: the loop variable
    atrasos,            \* the asyncio.sleep delays performed, in order
    historico,          \* how each finished attempt ended: whether it raised
                        \* and how many records it returned
    iniciadas,          \* the number of crawl attempts started
    resultado,          \* what scrape_com_retry returned or raised
    produtos,           \* scrape_com_retry: the list the last crawl returned
    excecao,            \* the exception the current crawl raised
    navegador,          \* the browser of the current attempt
    todos_produtos,     \* scrape_mestre_parrillero: the accumulated records
    idxCat,             \* scrape_mestre_parrillero: the category index i
    percorridas,        \* the lists the walker returned in this attempt
    produtos_categoria, \* the walker's own todos_produtos
    total_paginas,      \* the walker's clamped page count
    num_pagina,         \* the walker's page index
    dom,                \* the document the page currently shows
    produtos_pagina,    \* the records extracted from the current page
    extraiu,            \* whether the current page's extraction returned
    entrada,            \* how the walker's first navigation went, and what
                        \* the detector read and returned
    visitas,            \* how each page of the category ended, in order
    passos              \* what the crawl attempt has done: the warm-up and
                        \* each walker call that returned, with its entry

varsCrawl ==
    << pc, tentativa, atrasos, historico, iniciadas, resultado, produtos,
       excecao, navegador, todos_produtos, idxCat, percorridas,
       produtos_categoria, total_paginas, num_pagina, dom, produtos_pagina,
       extraiu, entrada, visitas, passos >>

varsWalker ==
    << produtos_categoria, total_paginas, num_pagina, dom, produtos_pagina,
       extraiu, entrada, visitas >>

varsRetry == << tentativa, atrasos, historico, resultado, produtos >>

(***************************************************************************)
(* State of the store and of one call of salvar_postgres.                  *)
(***************************************************************************)
VARIABLES
    spc,                \* where salvar_postgres is: "ocioso" between calls,
                        \* "laco" inside `for produto in produtos`
    relogio,            \* the number of calls made; the clock of the store
    tabela,             \* the committed rows of the table produtos
    tx,                 \* the rows as the open transaction sees them
    falhou,             \* whether the open transaction is in the failed state
    conn,               \* the connection: "nenhuma", "aberta" or "fechada"
    fechar_conexao,     \* salvar_postgres: whether it opened conn itself
    lote,               \* the argument produtos of the current or last call
    efeitos,            \* what the loop did with each record so far
    inseridos,          \* salvar_postgres: the counter inseridos
    atualizados,        \* salvar_postgres: the counter atualizados
    erros,              \* salvar_postgres: the counter erros
    stats,              \* what the last call returned
    retorno,            \* through which return statement the last call left
    tabelaAntes,        \* the committed rows when the current call began
    tabela_criada,      \* what criar_tabela_produtos returned to the call
    ultimo,             \* for each link, the parameters of the last record
                        \* applied in a transaction that was committed
    anterior            \* the call before the current one, when it was the
                        \* normal save of a single record

varsStore ==
    << spc, relogio, tabela, tx, falhou, conn, fechar_conexao, lote, efeitos,
       inseridos, atualizados, erros, stats, retorno, tabelaAntes,
       tabela_criada, ultimo, anterior >>

varsLaco == << tx, falhou, efeitos, inseridos, atualizados, erros >>

(***************************************************************************)
(* One call of limpar_preco.                                               *)
(***************************************************************************)
VARIABLES
    preco_str,          \* the argument
    preco_info          \* what the call returned, or that it raised

varsPreco == << preco_str, preco_info >>

\* the walker's max_paginas argument: its default in a crawl
VARIABLE max_paginas

(***************************************************************************)
(* One run of main.                                                        *)
(***************************************************************************)
VARIABLES
    mpc,                \* where main is: "crawl" at its call of
                        \* scrape_com_retry, "salvar" from salvar_json to
                        \* the return of salvar_postgres, "fim" returned
    emitidos,           \* the summaries printed between the n8n markers
    retorno_main        \* what main returned, Nulo before

varsMain == << mpc, emitidos, retorno_main >>

\* what an action of the crawl leaves alone
varsForaDoCrawl == << varsStore, varsPreco, max_paginas, varsMain >>

\* what an action of salvar_postgres leaves alone
varsForaDoStore == << varsCrawl, varsPreco, max_paginas, varsMain >>

SemResultado == [tipo |-> "nenhum"]

SemExcecao == [tentativa |-> 0, onde |-> ""]

SemEntrada == [como |-> "nenhuma"]

InitCrawl ==
    /\ pc = "retry"
    /\ tentativa = 1
    /\ atrasos = << >>
    /\ historico = << >>
    /\ iniciadas = 0
    /\ resultado = SemResultado
    /\ produtos = << >>
    /\ excecao = SemExcecao
    /\ navegador = "fechado"
    /\ todos_produtos = << >>
    /\ idxCat = 0
    /\ percorridas = << >>
    /\ produtos_categoria = << >>
    /\ total_paginas = 0
    /\ num_pagina = 0
    /\ dom = << >>
    /\ produtos_pagina = << >>
    /\ extraiu = FALSE
    /\ entrada = SemEntrada
    /\ visitas = << >>
    /\ passos = << >>

\* a plausible slip: any attempt that does not raise is returned
SucessoQualquer(ps) == TRUE

\* `if produtos:` in scrape_com_retry
Sucesso(ps) == ps # << >>

\* a plausible slip: the last retry is never made
HaProximaMenosUm(t) == t < MAX_RETRIES - 1

\* `if tentativa < max_tentativas:` in scrape_com_retry
HaProxima(t) == t < MAX_RETRIES

\* a plausible slip: a fixed delay instead of a growing one
AtrasoFixo(t) == 2

\* delay = 2 ** tentativa
Atraso(t) == 2 ^ t

\* what scrape_mestre_parrillero holds during one attempt
varsTentativa ==
    << excecao, navegador, todos_produtos, idxCat, percorridas, passos >>

\* a plausible slip: no finally clause, the browser stays as it was
SemFinally(n) == n

\* `finally: await browser.close()`
Finally(n) == "fechado"

\* an exception leaves scrape_mestre_parrillero towards scrape_com_retry;
\* the locals of the crawl go with it
Levanta(onde) ==
    /\ excecao' = [tentativa |-> tentativa, onde |-> onde]
    /\ todos_produtos' = << >>
    /\ percorridas' = << >>
    /\ passos' = << >>
    /\ idxCat' = 0
    /\ pc' = "levantou"

\* the walker has returned: its locals are gone
WalkerTerminado ==
    /\ produtos_categoria' = << >>
    /\ total_paginas' = 0
    /\ num_pagina' = 0
    /\ dom' = << >>
    /\ produtos_pagina' = << >>
    /\ extraiu' = FALSE
    /\ entrada' = SemEntrada
    /\ visitas' = << >>

(***************************************************************************)
(* scrape_com_retry starts attempt `tentativa`: scrape_mestre_parrillero   *)
(* begins with an empty list and opens the browser, the context and the    *)
(* page.  A failed launch leaves no browser; a failure of new_context or   *)
(* new_page happens outside the try block, so browser.close() is not run   *)
(* and the browser goes down with the playwright context manager.          *)
(***************************************************************************)
IniciarTentativa ==
    /\ pc = "retry"
    /\ UNCHANGED varsForaDoCrawl
    /\ tentativa <= MAX_RETRIES
    /\ iniciadas' = iniciadas + 1
    /\ \/ /\ navegador' = "aberto"
          /\ todos_produtos' = << >>
          /\ percorridas' = << >>
          /\ passos' = << >>
          /\ idxCat' = 0
          /\ excecao' = SemExcecao
          /\ pc' = "warmup"
       \/ /\ navegador' = "fechado"
          /\ Levanta("launch")
       \/ /\ navegador' = "derrubado"
          /\ Levanta("new_context")
    /\ UNCHANGED << varsRetry, varsWalker >>

\* the warm-up navigation to the home page
Aquecer ==
    /\ pc = "warmup"
    /\ UNCHANGED varsForaDoCrawl
    /\ \/ /\ pc' = "categoria"
          /\ idxCat' = 1
          /\ passos' = Append(passos, [nome |-> "warmup", como |-> "ok"])
          /\ UNCHANGED << excecao, navegador, todos_produtos, percorridas >>
       \/ /\ navegador' = Finally(navegador)
          /\ Levanta("warmup")
    /\ UNCHANGED << varsRetry, varsWalker, iniciadas >>

\* the statuses a navigation may answer with
Respostas == {200, 404}

\* a plausible slip: the status is not looked at
StatusQualquer(status) == TRUE

\* `if response.status != 200: return []`, negated
StatusOk(status) == status = 200

\* what page.evaluate hands to the detector: a number, up to one more than
\* the ceiling, or an exception
Leituras == {Nenhum} \cup {Algum(n) : n \in 0..(max_paginas + 1)}

\* a plausible slip: the detected count is used as it is
SemLimite(total, teto) == total

\* total_paginas = min(total_paginas, max_paginas)
Limitar(total, teto) == Min(total, teto)

\* a plausible slip: the walker has no handler of its own
ExcecaoNaCategoriaPropaga ==
    /\ navegador' = Finally(navegador)
    /\ Levanta("categoria")

\* the walker's outer `except Exception`: return todos_produtos
ExcecaoNaCategoria ==
    /\ pc' = "fim_categoria"
    /\ UNCHANGED varsTentativa

(***************************************************************************)
(* scrape_categoria_com_paginacao up to the page loop: navigation to the   *)
(* base URL, settling, detection and clamping.                             *)
(***************************************************************************)
EntrarCategoria ==
    /\ pc = "categoria"
    /\ UNCHANGED varsForaDoCrawl
    /\ produtos_categoria' = << >>
    /\ produtos_pagina' = << >>
    /\ extraiu' = FALSE
    /\ visitas' = << >>
    /\ \/ \* goto or settling raises
          /\ entrada' = [como |-> "excecao"]
          /\ ExcecaoNaCategoria
          /\ UNCHANGED << total_paginas, num_pagina, dom >>
       \/ \E status \in Respostas :
            /\ ~StatusOk(status)
            /\ entrada' = [como |-> "status", status |-> status]
            /\ pc' = "fim_categoria"
            /\ UNCHANGED << total_paginas, num_pagina, dom >>
            /\ UNCHANGED varsTentativa
       \/ \E status \in Respostas, leitura \in Leituras,
             d \in DomsDe(idxCat, 1) :
            /\ StatusOk(status)
            /\ entrada' = [como |-> "ok", status |-> status,
                           leitura |-> leitura,
                           detectado |-> detectar_total_paginas(leitura)]
            /\ total_paginas' =
                  Limitar(detectar_total_paginas(leitura), max_paginas)
            /\ num_pagina' = 1
            /\ dom' = d
            /\ pc' = "extrair"
            /\ UNCHANGED varsTentativa
    /\ UNCHANGED << varsRetry, iniciadas >>

\* the end of one iteration of the page loop: the next page, or the return
ProximaPagina ==
    IF num_pagina < total_paginas
    THEN /\ num_pagina' = num_pagina + 1
         /\ pc' = "pagina"
    ELSE /\ pc' = "fim_categoria"
         /\ UNCHANGED num_pagina

\* how page num_pagina ended, added to the walker's history
Visita(fim, n) == Append(visitas, [pagina |-> num_pagina, fim |-> fim, n |-> n])

\* page n > 1: goto and settling; an exception is caught and the loop continues
CarregarPagina ==
    /\ pc = "pagina"
    /\ UNCHANGED varsForaDoCrawl
    /\ \/ \E d \in DomsDe(idxCat, num_pagina) :
            /\ dom' = d
            /\ pc' = "extrair"
            /\ UNCHANGED << num_pagina, visitas >>
       \/ /\ ProximaPagina
          /\ visitas' = Visita("erro_carga", 0)
          /\ UNCHANGED dom
    /\ produtos_pagina' = << >>
    /\ extraiu' = FALSE
    /\ UNCHANGED << varsRetry, iniciadas, varsTentativa, produtos_categoria,
                    total_paginas, entrada >>

\* a plausible slip: an empty page never ends the pagination
ParaNoVazioNunca(n) == FALSE

\* a plausible slip: an empty page always ends the pagination
ParaNoVazioSempre(n) == TRUE

\* `if num_pagina > 1: break`
ParaNoVazio(n) == n > 1

\* extraction of the current page, the zero-result policy and the delay
\* (a raising delay is caught like any page error and ends the iteration
\* as a normal one does)
ExtrairPagina ==
    /\ pc = "extrair"
    /\ UNCHANGED varsForaDoCrawl
    /\ \/ \* page.evaluate raises: caught, continue
          /\ ProximaPagina
          /\ visitas' = Visita("erro_extracao", 0)
          /\ UNCHANGED << produtos_pagina, produtos_categoria, extraiu >>
       \/ LET pp == extrair_produtos_pagina(dom, CATEGORIAS[idxCat].nome)
              url_atual == UrlPagina(CATEGORIAS[idxCat].url, num_pagina)
          IN  /\ produtos_pagina' = pp
              /\ extraiu' = TRUE
              /\ visitas' = Visita("extraida", Len(pp))
              /\ IF pp # << >>
                 THEN /\ produtos_categoria' =
                            produtos_categoria \o ComFonte(pp, url_atual)
                      /\ ProximaPagina
                 ELSE /\ UNCHANGED produtos_categoria
                      /\ IF ParaNoVazio(num_pagina)
                         THEN /\ pc' = "fim_categoria"
                              /\ UNCHANGED num_pagina
                         ELSE ProximaPagina
    /\ UNCHANGED << varsRetry, iniciadas, varsTentativa, total_paginas, dom,
                    entrada >>

\* a plausible slip: the new list is put in front
EstenderNaFrente(todos, lista) == lista \o todos

\* a plausible slip: the new list replaces the accumulated one
EstenderSubstitui(todos, lista) == lista

\* todos_produtos.extend(produtos_categoria)
Estender(todos, lista) == todos \o lista

(***************************************************************************)
(* Back in scrape_mestre_parrillero: the walker's list is appended; then   *)
(* the delay before the next category, or the return through the finally   *)
(* block that closes the browser.                                          *)
(***************************************************************************)
ConcluirCategoria ==
    /\ pc = "fim_categoria"
    /\ UNCHANGED varsForaDoCrawl
    /\ WalkerTerminado
    /\ LET feito == [nome |-> CATEGORIAS[idxCat].nome, como |-> entrada.como]
       IN  IF idxCat < Len(CATEGORIAS)
           THEN \/ /\ todos_produtos' =
                         Estender(todos_produtos, produtos_categoria)
                   /\ percorridas' = Append(percorridas, produtos_categoria)
                   /\ passos' = Append(passos, feito)
                   /\ idxCat' = idxCat + 1
                   /\ pc' = "categoria"
                   /\ UNCHANGED << excecao, navegador, produtos >>
                \/ /\ navegador' = Finally(navegador)
                   /\ Levanta("wait_for_timeout")
                   /\ UNCHANGED produtos
           ELSE \/ /\ navegador' = Finally(navegador)
                   /\ produtos' = Estender(todos_produtos, produtos_categoria)
                   /\ percorridas' = Append(percorridas, produtos_categoria)
                   /\ passos' = Append(passos, feito)
                   /\ todos_produtos' = << >>
                   /\ idxCat' = 0
                   /\ pc' = "retornou"
                   /\ UNCHANGED excecao
                \/ \* browser.close() raises in the finally block: the
                   \* return value is lost, playwright's scope ends, and
                   \* the browser goes down with it
                   /\ navegador' = "derrubado"
                   /\ Levanta("close")
                   /\ UNCHANGED produtos
    /\ UNCHANGED << tentativa, atrasos, historico, iniciadas, resultado >>

(***************************************************************************)
(* scrape_com_retry after the crawl returned.                              *)
(***************************************************************************)
TratarRetorno ==
    /\ pc = "retornou"
    /\ UNCHANGED varsForaDoCrawl
    /\ historico' = Append(historico, [exc |-> FALSE, n |-> Len(produtos)])
    /\ IF Sucesso(produtos)
       THEN /\ resultado' = [tipo |-> "retorno", produtos |-> produtos]
            /\ pc' = "fim"
            /\ UNCHANGED << tentativa, atrasos >>
       ELSE /\ IF HaProxima(tentativa)
               THEN /\ atrasos' = Append(atrasos, Atraso(tentativa))
                    /\ tentativa' = tentativa + 1
                    /\ pc' = "retry"
                    /\ UNCHANGED resultado
               ELSE /\ resultado' = [tipo |-> "retorno", produtos |-> << >>]
                    /\ pc' = "fim"
                    /\ UNCHANGED << tentativa, atrasos >>
    /\ passos' = << >>
    /\ UNCHANGED << iniciadas, produtos, excecao, navegador, todos_produtos,
                    idxCat, percorridas, varsWalker >>

\* scrape_com_retry's except branch
TratarExcecao ==
    /\ pc = "levantou"
    /\ UNCHANGED varsForaDoCrawl
    /\ historico' = Append(historico, [exc |-> TRUE, n |-> 0])
    /\ IF HaProxima(tentativa)
       THEN /\ atrasos' = Append(atrasos, Atraso(tentativa))
            /\ tentativa' = tentativa + 1
            /\ pc' = "retry"
            /\ UNCHANGED resultado
       ELSE /\ resultado' = [tipo |-> "excecao", exc |-> excecao]
            /\ pc' = "fim"
            /\ UNCHANGED << tentativa, atrasos >>
    /\ UNCHANGED << iniciadas, produtos, varsTentativa, varsWalker >>

NextCrawl ==
    \/ IniciarTentativa
    \/ Aquecer
    \/ EntrarCategoria
    \/ CarregarPagina
    \/ ExtrairPagina
    \/ ConcluirCategoria
    \/ TratarRetorno
    \/ TratarExcecao

(***************************************************************************)
(* salvar_postgres, one call after another on the same store.              *)
(***************************************************************************)
Estatisticas(i, a, e) == [inseridos |-> i, atualizados |-> a, erros |-> e]

SemAnterior == [unico |-> FALSE]

InitStore ==
    /\ spc = "ocioso"
    /\ relogio = 0
    /\ tabela = << >>
    /\ tx = << >>
    /\ falhou = FALSE
    /\ conn = "nenhuma"
    /\ fechar_conexao = FALSE
    /\ lote = << >>
    /\ efeitos = << >>
    /\ inseridos = 0
    /\ atualizados = 0
    /\ erros = 0
    /\ stats = Estatisticas(0, 0, 0)
    /\ retorno = "nenhum"
    /\ tabelaAntes = << >>
    /\ tabela_criada = FALSE
    /\ ultimo = [l \in Links |-> Nenhum]
    /\ anterior = SemAnterior

\* what every call does on entry, whatever its arguments
Chamada(produtos_arg) ==
    /\ spc = "ocioso"
    /\ relogio < MaxChamadas
    /\ relogio' = relogio + 1
    /\ lote' = produtos_arg
    /\ efeitos' = << >>
    /\ tabelaAntes' = tabela
    /\ anterior' = IF retorno = "normal" /\ Len(lote) = 1
                   THEN [unico |-> TRUE, lote |-> lote, stats |-> stats,
                         antes |-> tabelaAntes, criada |-> tabela_criada]
                   ELSE SemAnterior
    /\ UNCHANGED << tabela, ultimo >>
    /\ UNCHANGED varsForaDoStore

\* a plausible slip: the finally clause closes whatever connection it has
FechadaSempre(propria, c) == "fechada"

\* the finally clause: conn.close() when the call opened the connection
Fechada(propria, c) == IF propria THEN "fechada" ELSE c

\* `if not produtos`: nothing is touched
SalvarVazio ==
    /\ Chamada(<< >>)
    /\ stats' = Estatisticas(0, 0, 0)
    /\ retorno' = "vazio"
    /\ UNCHANGED << spc, tx, falhou, conn, fechar_conexao, inseridos,
                    atualizados, erros, tabela_criada >>

\* conn is None and criar_conexao_postgres returns None
SalvarSemConexaoDe(lt) ==
    /\ Chamada(lt)
    /\ conn' = "nenhuma"
    /\ fechar_conexao' = FALSE
    /\ stats' = Estatisticas(0, 0, Len(lt))
    /\ retorno' = "sem_conexao"
    /\ UNCHANGED << spc, tx, falhou, inseridos, atualizados, erros,
                    tabela_criada >>

SalvarSemConexao == \E lt \in Lotes \ {<< >>} : SalvarSemConexaoDe(lt)

\* a connection is at hand, passed in (dada) or opened by the call;
\* criar_tabela_produtos commits its statement and reports True, or fails
\* and reports False, which the call ignores, leaving the transaction
\* failed; conn.cursor() then returns, or raises into the outer handler
IniciarLoteDe(lt, dada, criada) ==
    /\ Chamada(lt)
    /\ fechar_conexao' = ~dada
    /\ tabela_criada' = criada
    /\ inseridos' = 0
    /\ atualizados' = 0
    /\ erros' = 0
    /\ tx' = tabela
    /\ \/ /\ falhou' = ~criada
          /\ conn' = "aberta"
          /\ spc' = "laco"
          /\ stats' = Estatisticas(0, 0, 0)
          /\ retorno' = "em_curso"
       \/ /\ falhou' = FALSE
          /\ conn' = Fechada(~dada, "aberta")
          /\ spc' = "ocioso"
          /\ stats' = Estatisticas(0, 0, Len(lt))
          /\ retorno' = "excecao"

IniciarLote ==
    \E lt \in Lotes \ {<< >>}, dada \in BOOLEAN, criada \in BOOLEAN :
        IniciarLoteDe(lt, dada, criada)

\* one iteration of `for produto in produtos`
ProcessarRegistro ==
    /\ spc = "laco"
    /\ Len(efeitos) < Len(lote)
    /\ LET b == ProcessarProduto(
                    [tx |-> tx, falhou |-> falhou, inseridos |-> inseridos,
                     atualizados |-> atualizados, erros |-> erros,
                     efeito |-> ""],
                    lote[Len(efeitos) + 1], relogio)
       IN  /\ tx' = b.tx
           /\ falhou' = b.falhou
           /\ inseridos' = b.inseridos
           /\ atualizados' = b.atualizados
           /\ erros' = b.erros
           /\ efeitos' = Append(efeitos, b.efeito)
    /\ UNCHANGED << spc, relogio, tabela, conn, fechar_conexao, lote, stats,
                    retorno, tabelaAntes, tabela_criada, ultimo, anterior >>
    /\ UNCHANGED varsForaDoStore

MaiorIndice(I) == CHOOSE i \in I : \A j \in I : j <= i

\* the records of the batch whose statement ran, for one link
Aplicados(l) ==
    {i \in 1..Len(lote) :
        /\ efeitos[i] \in {"inserido", "atualizado"}
        /\ Get(lote[i], "link", "") = l}

UltimoAplicado(l) ==
    IF Aplicados(l) = {} THEN ultimo[l]
    ELSE LET produto == lote[MaiorIndice(Aplicados(l))]
         IN  Algum(Parametros(produto,
                   ConverterData(Get(produto, "data_scraping", Nulo))))

\* after the loop: conn.commit() returns, or raises into the outer handler;
\* then the finally clause
ConcluirLote ==
    /\ spc = "laco"
    /\ Len(efeitos) = Len(lote)
    /\ \/ /\ tabela' = Commit(tabela, [tx |-> tx, falhou |-> falhou])
          /\ ultimo' = IF falhou THEN ultimo
                       ELSE [l \in DOMAIN ultimo |-> UltimoAplicado(l)]
          /\ stats' = Estatisticas(inseridos, atualizados, erros)
          /\ retorno' = "normal"
       \/ /\ tabela' = tabela
          /\ ultimo' = ultimo
          /\ stats' = Estatisticas(0, 0, Len(lote))
          /\ retorno' = "excecao"
    /\ spc' = "ocioso"
    /\ conn' = Fechada(fechar_conexao, conn)
    /\ tx' = tabela'
    /\ falhou' = FALSE
    /\ inseridos' = 0
    /\ atualizados' = 0
    /\ erros' = 0
    /\ UNCHANGED << relogio, fechar_conexao, lote, efeitos, tabelaAntes,
                    tabela_criada, anterior >>
    /\ UNCHANGED varsForaDoStore

NextStore ==
    \/ SalvarVazio
    \/ SalvarSemConexao
    \/ IniciarLote
    \/ ProcessarRegistro
    \/ ConcluirLote

(***************************************************************************)
(* limpar_preco, called once on a text.                                    *)
(***************************************************************************)
SemPreco == [estado |-> "nenhum"]

\* before any call
PrecoOcioso ==
    /\ preco_str = ""
    /\ preco_info = SemPreco

\* the characters price texts are drawn from
Alfabeto == {"R", "$", " ", "1", ".", ","}

RECURSIVE TextosAte(_)
TextosAte(n) ==
    IF n = 0 THEN {""}
    ELSE LET menores == TextosAte(n - 1)
         IN  menores \cup {c \o t : c \in Alfabeto, t \in menores}

\* the arguments of limpar_preco: every text over the alphabet up to
\* MaxTexto characters, and price texts as the shop renders them
Textos ==
    TextosAte(MaxTexto)
        \cup {"Consultar", "R$ R$ 1.510,40", "R$ 7.450,00", "R$  89,90 ",
              "12x de R$ 10,00", "R$ 1.2", "-5,00", "1,234"}

\* one call of limpar_preco: it returns its dictionary, or float() raises
ChamarLimparPreco ==
    /\ preco_info = SemPreco
    /\ preco_info' =
          LET m == valor_str(preco_str)
          IN  IF m # Nulo /\ ~FloatAceita(TextoDoFloat(m))
              THEN [estado |-> "levantou"]
              ELSE [estado |-> "retornou",
                    texto |-> limpar_preco(preco_str).texto,
                    valor |-> limpar_preco(preco_str).valor]
    /\ UNCHANGED << preco_str, varsCrawl, varsStore, max_paginas, varsMain >>

(***************************************************************************)
(* main: after scrape_com_retry, the JSON backup, salvar_postgres on a     *)
(* connection of its own, and the summary between the n8n markers; with    *)
(* no record, or after an exception, main returns the empty list.         *)
(***************************************************************************)
MainNoInicio ==
    /\ mpc = "crawl"
    /\ emitidos = << >>
    /\ retorno_main = Nulo

\* main's `except Exception`: return []
MainExcecao ==
    /\ mpc' = "fim"
    /\ retorno_main' = << >>
    /\ UNCHANGED emitidos

\* scrape_com_retry has ended: its exception reaches main's handler; with
\* no record main returns the empty list; with records salvar_json writes
\* the backup, or raises into the handler
MainAposCrawl ==
    /\ mpc = "crawl"
    /\ pc = "fim"
    /\ IF resultado.tipo = "excecao"
       THEN MainExcecao
       ELSE IF resultado.produtos = << >>
            THEN /\ mpc' = "fim"
                 /\ retorno_main' = << >>
                 /\ UNCHANGED emitidos
            ELSE \/ /\ mpc' = "salvar"
                    /\ UNCHANGED << emitidos, retorno_main >>
                 \/ MainExcecao
    /\ UNCHANGED << varsCrawl, varsStore, varsPreco, max_paginas >>

\* stats = salvar_postgres(produtos): no connection is passed
MainSalvar ==
    /\ mpc = "salvar"
    /\ retorno = "nenhum"
    /\ \/ SalvarSemConexaoDe(resultado.produtos)
       \/ \E criada \in BOOLEAN :
             IniciarLoteDe(resultado.produtos, FALSE, criada)

\* main's categorias_resumo[cat] for the list the crawl returned
categorias_resumo(ps, cat) ==
    Cardinality({k \in DOMAIN ps : ps[k].categoria = cat})

\* the dictionary printed between __N8N_OUTPUT_START__ and
\* __N8N_OUTPUT_END__
Resumo(ps, stats_db) ==
    [produtos |-> ps,
     total |-> Len(ps),
     categorias |-> << categorias_resumo(ps, CATEGORIAS[1].nome),
                       categorias_resumo(ps, CATEGORIAS[2].nome) >>,
     stats_db |-> stats_db]

\* salvar_postgres has returned: the summary is printed and main returns
MainEmitir ==
    /\ mpc = "salvar"
    /\ spc = "ocioso"
    /\ retorno \notin {"nenhum", "em_curso"}
    /\ emitidos' = Append(emitidos, Resumo(resultado.produtos, stats))
    /\ retorno_main' = resultado.produtos
    /\ mpc' = "fim"
    /\ UNCHANGED << varsCrawl, varsStore, varsPreco, max_paginas >>

NextMain ==
    \/ NextCrawl
    \/ MainAposCrawl
    \/ MainSalvar
    \/ ProcessarRegistro
    \/ ConcluirLote
    \/ MainEmitir

vars == << varsCrawl, varsStore, varsPreco, max_paginas, varsMain >>

Init ==
    /\ InitCrawl
    /\ InitStore
    /\ PrecoOcioso
    /\ max_paginas = MaxPaginas
    /\ MainNoInicio

Next == NextCrawl

Spec == Init /\ [][Next]_vars

SpecStore == Init /\ [][NextStore]_vars

\* one call of scrape_categoria_com_paginacao on an open page, for any
\* category and any max_paginas
InitWalker ==
    /\ pc = "categoria"
    /\ tentativa = 1
    /\ atrasos = << >>
    /\ historico = << >>
    /\ iniciadas = 1
    /\ resultado = SemResultado
    /\ produtos = << >>
    /\ excecao = SemExcecao
    /\ navegador = "aberto"
    /\ todos_produtos = << >>
    /\ idxCat \in 1..Len(CATEGORIAS)
    /\ percorridas = << >>
    /\ produtos_categoria = << >>
    /\ total_paginas = 0
    /\ num_pagina = 0
    /\ dom = << >>
    /\ produtos_pagina = << >>
    /\ extraiu = FALSE
    /\ entrada = SemEntrada
    /\ visitas = << >>
    /\ passos = << >>
    /\ max_paginas \in 1..MaxTeto
    /\ InitStore
    /\ PrecoOcioso
    /\ MainNoInicio

NextWalker ==
    \/ EntrarCategoria
    \/ CarregarPagina
    \/ ExtrairPagina

SpecWalker == InitWalker /\ [][NextWalker]_vars

\* limpar_preco called on any of the texts
InitPreco ==
    /\ InitCrawl
    /\ InitStore
    /\ max_paginas = MaxPaginas
    /\ preco_str \in Textos
    /\ preco_info = SemPreco
    /\ MainNoInicio

NextPreco == ChamarLimparPreco

SpecPreco == InitPreco /\ [][NextPreco]_vars

\* one run of main
SpecMain == Init /\ [][NextMain]_vars


(***************************************************************************)
(* Properties of the retry wrapper and of extraction.                      *)
(***************************************************************************)
RECURSIVE Achatar(_)
Achatar(listas) ==
    IF listas = << >> THEN << >> ELSE Head(listas) \o Achatar(Tail(listas))

\* an attempt that completed without exception and returned a record
BemSucedida(h) == ~h.exc /\ h.n > 0

Terminou == resultado # SemResultado

\* C1: scrape_com_retry returns at the first attempt that completes without
\* exception and yields at least one record, and not before an unsuccessful
\* attempt below the limit: the returned list is the concatenation of the
\* lists the walker returned in that very attempt, and no attempt is
\* started after it.
C1_RetornaNaPrimeiraBemSucedida ==
    /\ \A k \in 1..Len(historico) :
          BemSucedida(historico[k]) =>
             /\ k = Len(historico)
             /\ iniciadas = k
             /\ pc = "fim"
             /\ resultado = [tipo |-> "retorno", produtos |-> Achatar(percorridas)]
             /\ Len(resultado.produtos) = historico[k].n
    /\ Terminou =>
          /\ pc = "fim"
          /\ iniciadas = Len(historico)
          /\ \/ BemSucedida(historico[Len(historico)])
             \/ Len(historico) = MAX_RETRIES

\* an attempt failed on its first try, another on its second, and the third
\* returned records of both categories
C1_Witness ==
    /\ pc = "fim"
    /\ Len(historico) = 3
    /\ historico[1].exc
    /\ ~historico[2].exc
    /\ BemSucedida(historico[3])
    /\ Len(percorridas) = 2
    /\ percorridas[1] # << >>
    /\ percorridas[2] # << >>
    /\ resultado.produtos = percorridas[1] \o percorridas[2]

\* the finished attempts that failed and were not the last one allowed
FalhasComProxima ==
    {k \in 1..Len(historico) : ~BemSucedida(historico[k]) /\ k < MAX_RETRIES}

\* C2: every failed attempt k < maxAttempts is followed by exactly one delay
\* of 2^k seconds before attempt k+1 starts, and there is no delay after a
\* successful or a final attempt; raising on attempts 1 and 2 and returning
\* records on attempt 3 yields those records with delays 2 then 4.
C2_AtrasoExponencial ==
    /\ Len(atrasos) = Cardinality(FalhasComProxima)
    /\ FalhasComProxima = 1..Len(atrasos)
    /\ \A k \in 1..Len(atrasos) : atrasos[k] = 2 ^ k
    /\ iniciadas <= Len(atrasos) + 1
    /\ (/\ Len(historico) = 3
        /\ historico[1].exc
        /\ historico[2].exc
        /\ BemSucedida(historico[3]))
       => /\ resultado = [tipo |-> "retorno", produtos |-> Achatar(percorridas)]
          /\ resultado.produtos # << >>
          /\ atrasos = << 2, 4 >>

C2_Witness ==
    /\ pc = "fim"
    /\ Len(historico) = 3
    /\ historico[1].exc
    /\ historico[2].exc
    /\ historico[3] = [exc |-> FALSE, n |-> 1]
    /\ Len(resultado.produtos) = 1
    /\ atrasos = << 2, 4 >>

\* the attempts that raised
Levantaram == {k \in 1..Len(historico) : historico[k].exc}

Maior(S) == CHOOSE k \in S : \A j \in S : j <= k

\* C3: when all maxAttempts attempts are exhausted without a successful one
\* and at least one attempt raised, the most recently raised exception is
\* re-raised to the caller.
C3_UltimaExcecaoRelancada ==
    (/\ pc = "fim"
     /\ Len(historico) = MAX_RETRIES
     /\ \A k \in 1..Len(historico) : ~BemSucedida(historico[k])
     /\ Levantaram # {})
    => /\ resultado.tipo = "excecao"
       /\ resultado.exc.tentativa = Maior(Levantaram)

\* C4: when every attempt completes without exception and returns zero
\* records, exactly maxAttempts attempts are made and an empty list is
\* returned, not an exception.
C4_SoVaziosRetornaListaVazia ==
    (/\ pc = "fim"
     /\ \A k \in 1..Len(historico) : ~historico[k].exc /\ historico[k].n = 0)
    => /\ Len(historico) = MAX_RETRIES
       /\ iniciadas = MAX_RETRIES
       /\ atrasos = << 2, 4 >>
       /\ resultado = [tipo |-> "retorno", produtos |-> << >>]

C4_Witness ==
    /\ pc = "fim"
    /\ Len(historico) = MAX_RETRIES
    /\ \A k \in 1..Len(historico) : ~historico[k].exc /\ historico[k].n = 0
    /\ resultado.tipo = "retorno"

\* a listing element from which the script can read a name and a link
Completo(item) ==
    /\ ~item.lanca
    /\ item.nomeEl # Nulo
    /\ Strip(item.nomeEl) # ""
    /\ item.href # ""

TemNomeELink(ps) ==
    \A i \in 1..Len(ps) : ps[i].nome # "" /\ ps[i].link # ""

\* C10: every record extracted from a page, and so every record in the
\* walker's, the crawl's and the retry wrapper's output, has a non-empty
\* name and a non-empty link; the records of a page are those of its
\* complete elements, in document order, whatever incomplete or broken
\* elements stand among them.
C10_RegistrosTemNomeELink ==
    /\ TemNomeELink(produtos_pagina)
    /\ TemNomeELink(produtos_categoria)
    /\ TemNomeELink(todos_produtos)
    /\ TemNomeELink(produtos)
    /\ \A i \in 1..Len(percorridas) : TemNomeELink(percorridas[i])
    /\ resultado.tipo = "retorno" => TemNomeELink(resultado.produtos)
    /\ extraiu =>
          LET completos == SelectSeq(dom, Completo)
          IN  /\ Len(produtos_pagina) = Len(completos)
              /\ \A i \in 1..Len(completos) :
                    /\ produtos_pagina[i].link = completos[i].href
                    /\ produtos_pagina[i].nome = Strip(completos[i].nomeEl)

\* a page whose middle element has no link gave the records of the other two
C10_Witness ==
    /\ extraiu
    /\ dom = << ItemValido, ItemSemLink, ItemParcelado >>
    /\ Len(produtos_pagina) = 2
    /\ produtos_pagina[2].link = ItemParcelado.href

(***************************************************************************)
(* Properties of salvar_postgres and of the store.                         *)
(***************************************************************************)
LinkDe(produto) == Get(produto, "link", "")

ParametrosDe(produto) ==
    Parametros(produto, ConverterData(Get(produto, "data_scraping", Nulo)))

\* a record whose timestamp is readable and whose statement the store takes
Aceitavel(produto) ==
    /\ ConverterData(Get(produto, "data_scraping", Nulo)).ok
    /\ ~RejeitadoPeloBanco(ParametrosDe(produto))

LinhasDoLink(t, l) == {i \in 1..Len(t) : t[i].link = l}

\* the call ran its loop and committed on a store that took the table
\* statement
RetornoNormal == spc = "ocioso" /\ retorno = "normal" /\ tabela_criada

Gravados == {"inserido", "atualizado"}

\* two successive normal calls with the same single acceptable record, the
\* first on a store without its link
MesmoRegistroDuasVezes ==
    /\ RetornoNormal
    /\ anterior.unico
    /\ anterior.criada
    /\ anterior.lote = lote
    /\ Aceitavel(lote[1])
    /\ LinhasDoLink(anterior.antes, LinkDe(lote[1])) = {}

\* C5: saving the same single record twice on a store that did not hold its
\* link reports one insertion in the first call and one update, no
\* insertion, in the second, and the store then holds exactly one row for
\* the link.
C5_UpsertIdempotente ==
    MesmoRegistroDuasVezes =>
        /\ anterior.stats = Estatisticas(1, 0, 0)
        /\ stats = Estatisticas(0, 1, 0)
        /\ Cardinality(LinhasDoLink(tabela, LinkDe(lote[1]))) = 1

C5_Witness ==
    /\ MesmoRegistroDuasVezes
    /\ lote = << ProdA1 >>
    /\ stats.atualizados = 1

UmaLinhaPorLink(t) ==
    \A i, j \in 1..Len(t) : t[i].link = t[j].link => i = j

Mutaveis(r) ==
    [produto_id |-> r.produto_id, sku |-> r.sku, nome |-> r.nome,
     preco_texto |-> r.preco_texto, preco_valor |-> r.preco_valor,
     imagem |-> r.imagem, categoria |-> r.categoria, status |-> r.status,
     fonte |-> r.fonte, data_scraping |-> r.data_scraping]

AcabouDeAtualizar ==
    /\ spc = "laco"
    /\ Len(efeitos') = Len(efeitos) + 1
    /\ efeitos'[Len(efeitos')] = "atualizado"

\* C7: when the statement of a record finds its link stored, the row keeps
\* its link and its criado_em, its atualizado_em becomes the current
\* timestamp, and no row with another link changes; no row is added.
C7_AtualizacaoPreservaIdentidade ==
    [][AcabouDeAtualizar =>
        LET i == LinhaDe(tx, LinkDe(lote[Len(efeitos')]))
        IN  /\ i # 0
            /\ Len(tx') = Len(tx)
            /\ tx'[i].link = tx[i].link
            /\ tx'[i].criado_em = tx[i].criado_em
            /\ tx'[i].atualizado_em = relogio
            /\ tx[i].atualizado_em <= relogio
            /\ \A j \in 1..Len(tx) : j # i => tx'[j] = tx[j]]_vars

\* a row created by an earlier call has just been updated, next to a row
\* with another link
C7_Witness ==
    /\ spc = "laco"
    /\ efeitos # << >>
    /\ efeitos[Len(efeitos)] = "atualizado"
    /\ Len(tx) = 2
    /\ LET i == LinhaDe(tx, LinkDe(lote[Len(efeitos)]))
       IN  /\ tx[i].criado_em < relogio
           /\ tx[i].atualizado_em = relogio
           /\ tx[i].nome = ProdA2.nome

\* the records of the batch whose timestamp cannot be read
Malformados ==
    {i \in 1..Len(lote) :
        ~ConverterData(Get(lote[i], "data_scraping", Nulo)).ok}

\* the last record of the batch with the link of record i and a readable
\* timestamp
UltimoLegivel(i) ==
    Maior({j \in 1..Len(lote) \ Malformados :
              LinkDe(lote[j]) = LinkDe(lote[i])})

\* a committed batch whose only failing records are those with an
\* unreadable timestamp
SoErrosDeData ==
    /\ RetornoNormal
    /\ Malformados # {}
    /\ \A i \in 1..Len(lote) \ Malformados : Aceitavel(lote[i])

LinksNovos ==
    \A i \in 1..Len(lote) : LinhasDoLink(tabelaAntes, LinkDe(lote[i])) = {}

\* C8: in a batch whose failing records are those with an unreadable
\* timestamp, errors is the number of such records, every other record is
\* counted as inserted or updated and its row is in the committed table;
\* the batch of five new records with the third unreadable returns
\* inserted 4, updated 0, errors 1 and leaves the four other rows stored.
C8_IsolamentoDeErros ==
    SoErrosDeData =>
        /\ stats.erros = Cardinality(Malformados)
        /\ stats.inseridos + stats.atualizados
              = Len(lote) - Cardinality(Malformados)
        /\ \A i \in 1..Len(lote) \ Malformados :
              /\ efeitos[i] \in Gravados
              /\ LinhasDoLink(tabela, LinkDe(lote[i])) # {}
              /\ Mutaveis(tabela[LinhaDe(tabela, LinkDe(lote[i]))])
                    = Mutaveis(ParametrosDe(lote[UltimoLegivel(i)]))
        /\ (lote = LoteExemplo /\ LinksNovos) =>
              /\ stats = Estatisticas(4, 0, 1)
              /\ Len(tabela) = Len(tabelaAntes) + 4
              /\ LinhasDoLink(tabela, LinkDe(lote[3])) = {}

C8_Witness ==
    /\ SoErrosDeData
    /\ lote = LoteExemplo
    /\ LinksNovos
    /\ Malformados = {3}
    /\ stats = Estatisticas(4, 0, 1)

\* C9: after a committed batch in which some record failed, every record
\* counted as inserted or updated has its row in the store, and every
\* record that is acceptable by itself was counted as inserted or updated.
C9_FalhaNaoPerdeLinhas ==
    RetornoNormal =>
        \A i \in 1..Len(lote) :
            /\ Aceitavel(lote[i]) => efeitos[i] \in Gravados
            /\ efeitos[i] \in Gravados =>
                  /\ LinhasDoLink(tabela, LinkDe(lote[i])) # {}
                  /\ Mutaveis(tabela[LinhaDe(tabela, LinkDe(lote[i]))])
                        = Mutaveis(ParametrosDe(lote[
                             Maior({j \in 1..Len(lote) :
                                       /\ efeitos[j] \in Gravados
                                       /\ LinkDe(lote[j]) = LinkDe(lote[i])})]))

(***************************************************************************)
(* Properties of the category walker.                                      *)
(***************************************************************************)
\* the records extracted on the first k visited pages
RECURSIVE SomaVisitas(_, _)
SomaVisitas(vs, k) ==
    IF k = 0 THEN 0 ELSE SomaVisitas(vs, k - 1) + vs[k].n

\* visit k extracted its page and found no record
VisitaVazia(k) == visitas[k].fim = "extraida" /\ visitas[k].n = 0

\* C11: the walker stops at the first page p > 1 whose extraction yields no
\* record: that visit is the last one, the walker has returned, no page
\* after p was navigated to, and the returned list has as many records as
\* pages 1..p-1 yielded.
C11_ParaNaPrimeiraPaginaVazia ==
    \A k \in DOMAIN visitas :
        (visitas[k].pagina > 1 /\ VisitaVazia(k)) =>
            /\ k = Len(visitas)
            /\ pc = "fim_categoria"
            /\ num_pagina = visitas[k].pagina
            /\ \A j \in DOMAIN visitas : visitas[j].pagina <= visitas[k].pagina
            /\ Len(produtos_categoria) = SomaVisitas(visitas, k - 1)

\* the walker stopped at an empty page 2 of 3 after a page 1 with records
C11_Witness ==
    /\ pc = "fim_categoria"
    /\ total_paginas = 3
    /\ Len(visitas) = 2
    /\ visitas[2].pagina = 2
    /\ VisitaVazia(2)
    /\ visitas[1].n > 0
    /\ Len(produtos_categoria) = visitas[1].n

(***************************************************************************)
(* Properties of one crawl attempt.                                        *)
(***************************************************************************)
RECURSIVE SomaLen(_)
SomaLen(listas) ==
    IF listas = << >> THEN 0 ELSE Len(Head(listas)) + SomaLen(Tail(listas))

\* the records of a list that were taken from page n of category i
NaPagina(ps, i, n) ==
    Cardinality({k \in DOMAIN ps :
                    ps[k].fonte = UrlPagina(CATEGORIAS[i].url, n)})

RECURSIVE SomaPaginas(_, _, _)
SomaPaginas(ps, i, n) ==
    IF n = 0 THEN 0 ELSE SomaPaginas(ps, i, n - 1) + NaPagina(ps, i, n)

NoWalker == pc \in {"pagina", "extrair", "fim_categoria"}

CrawlCompleto == pc = "retornou"

\* category 1 returned 20 records of page 1 and 5 of page 2, category 2
\* returned 10 records of page 1, and no other page gave any
Exemplo20_5_10 ==
    /\ Len(percorridas) = 2
    /\ NaPagina(percorridas[1], 1, 1) = 20
    /\ NaPagina(percorridas[1], 1, 2) = 5
    /\ \A n \in 3..max_paginas : NaPagina(percorridas[1], 1, n) = 0
    /\ NaPagina(percorridas[2], 2, 1) = 10
    /\ \A n \in 2..max_paginas : NaPagina(percorridas[2], 2, n) = 0

\* C12: the list the walker holds has as many records as the pages it
\* visited yielded, page by page; a completed crawl returns as many records
\* as its walkers returned together, each category's count in the summary
\* is its walker's count, and every record comes from a page of its
\* category; with pages of 20 and 5 in the first category and one of 10 in
\* the second, the total is 35 and the counts are 25 and 10.
C12_TotalSomaDasCategorias ==
    /\ NoWalker =>
          /\ Len(produtos_categoria) = SomaVisitas(visitas, Len(visitas))
          /\ \A k \in DOMAIN visitas :
                NaPagina(produtos_categoria, idxCat, visitas[k].pagina)
                    = visitas[k].n
    /\ CrawlCompleto =>
          /\ Len(percorridas) = Len(CATEGORIAS)
          /\ Len(produtos) = SomaLen(percorridas)
          /\ \A i \in DOMAIN percorridas :
                /\ categorias_resumo(produtos, CATEGORIAS[i].nome)
                      = Len(percorridas[i])
                /\ Len(percorridas[i])
                      = SomaPaginas(percorridas[i], i, max_paginas)
    /\ (CrawlCompleto /\ Exemplo20_5_10) =>
          /\ Len(produtos) = 35
          /\ categorias_resumo(produtos, CATEGORIAS[1].nome) = 25
          /\ categorias_resumo(produtos, CATEGORIAS[2].nome) = 10

\* the crawl of the example returned
C12_Witness ==
    /\ CrawlCompleto
    /\ Exemplo20_5_10
    /\ Len(produtos) = 35

\* scrape_mestre_parrillero is not running: before an attempt, after its
\* return or its exception, and after the last attempt
ForaDoCrawl == pc \in {"retry", "retornou", "levantou", "fim"}

\* C13: whenever scrape_mestre_parrillero is left, by its return or by an
\* exception of the launch, of the creation of the context or the page, of
\* the warm-up or of the category loop, no browser it launched is still
\* open; a browser is open only inside the crawl.
C13_SessaoSempreEncerrada ==
    /\ ForaDoCrawl => navegador \in {"fechado", "derrubado"}
    /\ (pc = "levantou" /\ excecao.onde \in {"new_context", "close"})
          => navegador = "derrubado"
    /\ (pc = "levantou" /\ excecao.onde \in {"warmup", "wait_for_timeout"})
          => navegador = "fechado"
    /\ pc = "retornou" => navegador = "fechado"

\* the second attempt failed while creating the context, after a first
\* attempt that returned normally, and no browser is left
C13_Witness ==
    /\ pc = "levantou"
    /\ excecao = [tentativa |-> 2, onde |-> "new_context"]
    /\ historico = << [exc |-> FALSE, n |-> 0] >>
    /\ navegador = "derrubado"

\* the steps of a crawl attempt so far are the warm-up and then the
\* categories in the order of the list, one walker call each
PassosEmOrdem ==
    \A k \in DOMAIN passos :
        IF k = 1 THEN passos[k].nome = "warmup"
        ELSE k - 1 <= Len(CATEGORIAS) /\ passos[k].nome = CATEGORIAS[k - 1].nome

\* C14: in a crawl attempt the warm-up navigation comes first, the walker
\* is called for category i only after the warm-up and the walkers of
\* categories 1..i-1, once each, and the list returned is the concatenation
\* of the walkers' lists in the order of the category list.
C14_AquecimentoECategoriasEmOrdem ==
    /\ PassosEmOrdem
    /\ (NoWalker \/ pc = "categoria") =>
          /\ Len(passos) = idxCat
          /\ Len(percorridas) = idxCat - 1
          /\ todos_produtos = Achatar(percorridas)
    /\ CrawlCompleto =>
          /\ Len(passos) = Len(CATEGORIAS) + 1
          /\ Len(percorridas) = Len(CATEGORIAS)
          /\ produtos = Achatar(percorridas)
          /\ \A i \in DOMAIN percorridas :
                \A k \in DOMAIN percorridas[i] :
                    percorridas[i][k].categoria = CATEGORIAS[i].nome

\* a crawl returned records of both categories
C14_Witness ==
    /\ CrawlCompleto
    /\ Len(passos) = 3
    /\ percorridas[1] # << >>
    /\ percorridas[2] # << >>
    /\ produtos = percorridas[1] \o percorridas[2]

\* the navigation to the base URL answered with a status other than 200
StatusRuim == entrada.como \in {"status", "ok"} /\ entrada.status # 200

\* C15: when the navigation to the base URL of a category answers with a
\* status other than 200, the walker has returned the empty list with no
\* detection and no page extracted; in the crawl, the category is recorded
\* with the empty list and the next category is walked.
C15_StatusRuimListaVazia ==
    /\ StatusRuim =>
          /\ pc = "fim_categoria"
          /\ produtos_categoria = << >>
          /\ visitas = << >>
          /\ ~extraiu
          /\ total_paginas = 0
    /\ \A k \in DOMAIN passos :
          (k > 1 /\ passos[k].como = "status") =>
              /\ percorridas[k - 1] = << >>
              /\ pc # "levantou"
              /\ k - 1 < Len(CATEGORIAS) =>
                    /\ pc \in {"categoria", "extrair", "pagina", "fim_categoria"}
                          => idxCat >= k
                    /\ pc = "retornou" => Len(passos) = Len(CATEGORIAS) + 1

\* category 1 answered 404 and category 2 is at its page 1
C15_Witness ==
    /\ Len(passos) = 2
    /\ passos[2].como = "status"
    /\ idxCat = 2
    /\ pc = "extrair"
    /\ percorridas = << << >> >>

\* visit k ended with an exception of the navigation, the settling or the
\* extraction
VisitaComErro(k) == visitas[k].fim \in {"erro_carga", "erro_extracao"}

\* the walk went on from visit k to the following page
SeguiuPara(k) ==
    IF k < Len(visitas)
    THEN visitas[k + 1].pagina = visitas[k].pagina + 1
    ELSE pc \in {"pagina", "extrair"} /\ num_pagina = visitas[k].pagina + 1

\* C16: an exception while loading or extracting a page, page 1 included,
\* does not end the category: after an exception at a page below the
\* clamped count the walker is at the following page with the records of
\* the earlier pages, and an exception while loading page 1 does not make
\* the walker return.
C16_ErroDePaginaNaoAbortaCategoria ==
    /\ \A k \in DOMAIN visitas :
          (VisitaComErro(k) /\ visitas[k].pagina < total_paginas) =>
              /\ SeguiuPara(k)
              /\ Len(produtos_categoria) >= SomaVisitas(visitas, k - 1)
    /\ entrada.como = "excecao" => pc # "fim_categoria"

\* inside scrape_categoria_com_paginacao
DentroDoWalker == pc \in {"categoria", "pagina", "extrair"}

\* a step of the walker stays in the walker or returns its list
PassoDoWalker ==
    DentroDoWalker =>
        /\ pc' \in {"pagina", "extrair", "fim_categoria"}
        /\ excecao' = excecao
        /\ navegador' = navegador
        /\ idxCat' = idxCat
        /\ todos_produtos' = todos_produtos

\* the walker of an earlier category ended by an exception and returned
FalhouAntes(k) == k > 1 /\ passos[k].como = "excecao"

\* C17: no step of the walker raises into the crawl: whatever the
\* navigation, settling, detection or extraction do, the walker goes on or
\* returns a list, the empty one when the failure came before the page
\* loop; a category whose walker failed is recorded with that list and the
\* following category is walked in the same attempt.
C17_WalkerNuncaPropaga ==
    /\ [][PassoDoWalker]_vars
    /\ [](/\ pc = "levantou" => excecao.onde # "categoria"
          /\ entrada.como = "excecao" =>
                pc = "fim_categoria" /\ produtos_categoria = << >>
          /\ \A k \in DOMAIN passos :
                (FalhouAntes(k) /\ k - 1 < Len(CATEGORIAS)) =>
                    /\ percorridas[k - 1] = << >>
                    /\ (DentroDoWalker \/ pc = "fim_categoria") => idxCat >= k
                    /\ pc = "retornou" => Len(passos) = Len(CATEGORIAS) + 1)

\* the walker of category 1 failed at its base URL and the crawl returned
\* the records of category 2
C17_Witness ==
    /\ CrawlCompleto
    /\ passos[2].como = "excecao"
    /\ passos[3].como = "ok"
    /\ percorridas[1] = << >>
    /\ produtos # << >>
    /\ produtos = percorridas[2]

\* the pages the walker has started: those that ended and the current one
PaginasVisitadas ==
    {visitas[k].pagina : k \in DOMAIN visitas}
        \cup (IF pc \in {"pagina", "extrair"} THEN {num_pagina} ELSE {})

\* C19: the walker visits at most min(detected count, max_paginas) pages of
\* a category, each at most once and in increasing order, whatever the
\* detector read; the detector's result is at least 1, and it is 1 when
\* reading the document raised.
C19_PaginasLimitadas ==
    /\ entrada.como = "ok" =>
          /\ entrada.detectado >= 1
          /\ entrada.leitura = Nenhum => entrada.detectado = 1
          /\ entrada.leitura # Nenhum =>
                entrada.detectado = Maior({1, entrada.leitura[1]})
          /\ total_paginas = Min(entrada.detectado, max_paginas)
          /\ Cardinality(PaginasVisitadas)
                <= Min(entrada.detectado, max_paginas)
          /\ \A n \in PaginasVisitadas :
                n \in 1..Min(entrada.detectado, max_paginas)
          /\ \A k \in DOMAIN visitas : visitas[k].pagina = k
    /\ entrada.como # "ok" => PaginasVisitadas = {}

\* the detector read more pages than the ceiling and the walker returned
\* after visiting as many pages as the ceiling allows
C19_Witness ==
    /\ pc = "fim_categoria"
    /\ entrada.como = "ok"
    /\ entrada.detectado > max_paginas
    /\ max_paginas >= 2
    /\ Len(visitas) = max_paginas

\* page 1 was extracted, gave no record, and the clamped count is above 1
PrimeiraVaziaDeVarias ==
    /\ visitas # << >>
    /\ visitas[1].pagina = 1
    /\ VisitaVazia(1)
    /\ total_paginas > 1

\* C20: when page 1 yields no record and the clamped count is above 1, the
\* walker does not return there: it is at page 2 or has visited it, and
\* the list it holds has the records of all the later pages extracted.
C20_PrimeiraPaginaVaziaNaoPara ==
    PrimeiraVaziaDeVarias =>
        /\ Len(visitas) = 1 =>
              pc \in {"pagina", "extrair"} /\ num_pagina = 2
        /\ Len(visitas) > 1 => visitas[2].pagina = 2
        /\ Len(produtos_categoria) = SomaVisitas(visitas, Len(visitas))
        /\ \A k \in DOMAIN visitas :
              NaPagina(produtos_categoria, idxCat, visitas[k].pagina)
                  = visitas[k].n

\* page 1 was empty, page 2 gave records, and the walker returned them
C20_Witness ==
    /\ PrimeiraVaziaDeVarias
    /\ pc = "fim_categoria"
    /\ Len(visitas) = 2
    /\ visitas[2].fim = "extraida"
    /\ visitas[2].n > 0
    /\ Len(produtos_categoria) = visitas[2].n

(***************************************************************************)
(* Properties of limpar_preco.                                             *)
(***************************************************************************)
\* s has a digit followed by a comma and two digits: the end of a run of
\* digits grouped by dots, and the two decimals
TemDigitosVirgulaDois(s) ==
    \E i \in 1..(Len(s) - 3) :
        /\ Car(s, i) \in Digitos
        /\ Car(s, i + 1) = ","
        /\ Car(s, i + 2) \in Digitos
        /\ Car(s, i + 3) \in Digitos

\* s has a digit or a dot followed by a comma and two digits
TemDigitoOuPontoVirgulaDois(s) ==
    \E i \in 1..(Len(s) - 3) :
        /\ Car(s, i) \in Digitos \cup {"."}
        /\ Car(s, i + 1) = ","
        /\ Car(s, i + 2) \in Digitos
        /\ Car(s, i + 3) \in Digitos

PrecoChamado == preco_info # SemPreco

\* the call returned, with no value or a value that is not negative
RetornaNuloOuNaoNegativo ==
    /\ preco_info.estado = "retornou"
    /\ preco_info.valor = Nenhum \/ preco_info.valor[1] >= 0

\* C18: limpar_preco returns for every text without raising, its value is
\* null or not negative, and it is null when the text is empty, is
\* 'Consultar', or has no run of dot-grouped digits followed by a comma and
\* two digits.
C18_PrecoNuloOuNaoNegativo ==
    PrecoChamado =>
        /\ RetornaNuloOuNaoNegativo
        /\ (\/ preco_str = ""
            \/ preco_str = "Consultar"
            \/ ~TemDigitosVirgulaDois(preco_str))
              => preco_info.valor = Nenhum

\* what the call does on every text: it returns, and its value is null
\* exactly when the text is empty, is 'Consultar', or has no digit or dot
\* followed by a comma and two digits
PrecoSegueAExpressao ==
    PrecoChamado =>
        /\ RetornaNuloOuNaoNegativo
        /\ preco_info.valor = Nenhum
              <=> \/ preco_str \in {"", "Consultar"}
                  \/ ~TemDigitoOuPontoVirgulaDois(preco_str)

(***************************************************************************)
(* Properties of the counts and the connection of salvar_postgres.         *)
(***************************************************************************)
\* salvar_postgres has returned
Retornou == spc = "ocioso" /\ retorno # "nenhum"

SomaStats == stats.inseridos + stats.atualizados + stats.erros

\* C23: whenever salvar_postgres has returned (empty batch, no connection,
\* records that failed, cursor or commit failure, or a clean run), its three
\* counts add up to the length of the batch; inside the loop the running
\* counts add up to the records processed; a connection the call opened is
\* closed when it returns and a connection passed in is still open; with
\* no connection to be had none is open.
C23_ContagensEConexao ==
    /\ Retornou => SomaStats = Len(lote)
    /\ spc = "laco" =>
          /\ inseridos + atualizados + erros = Len(efeitos)
          /\ conn = "aberta"
    /\ (Retornou /\ retorno \in {"normal", "excecao"}) =>
          IF fechar_conexao THEN conn = "fechada" ELSE conn = "aberta"
    /\ (Retornou /\ retorno = "sem_conexao") =>
          conn = "nenhuma" /\ stats = Estatisticas(0, 0, Len(lote))
    /\ (Retornou /\ retorno = "vazio") =>
          lote = << >> /\ stats = Estatisticas(0, 0, 0)
    /\ (spc = "ocioso" /\ fechar_conexao) => conn # "aberta"

\* a call on the caller's connection processed a batch in which a record
\* failed, its commit raised, and it returned with the connection open
C23_Witness ==
    /\ Retornou
    /\ retorno = "excecao"
    /\ Len(lote) >= 2
    /\ Len(efeitos) = Len(lote)
    /\ \E i \in DOMAIN efeitos : efeitos[i] \notin Gravados
    /\ \E i \in DOMAIN efeitos : efeitos[i] \in Gravados
    /\ ~fechar_conexao
    /\ conn = "aberta"
    /\ stats = Estatisticas(0, 0, Len(lote))

(***************************************************************************)
(* Properties of the rendering session across the attempts.                *)
(***************************************************************************)
\* a step in which an attempt begins: scrape_mestre_parrillero is called
ComecaTentativa == iniciadas' = iniciadas + 1

\* a step in which scrape_com_retry begins a backoff delay
ComecaAtraso == Len(atrasos') = Len(atrasos) + 1

\* C21: the browser of an attempt is down before the backoff delay begins
\* and before the next attempt launches its own, after a return as after
\* an exception: a browser is launched only when none is open, a delay
\* begins only when none is open, and a browser is open only during the
\* attempt that launched it.
C21_UmaSessaoPorVez ==
    /\ [][ComecaTentativa => navegador # "aberto"]_vars
    /\ [][ComecaAtraso => navegador # "aberto"]_vars
    /\ [](navegador = "aberto" =>
            /\ pc \in {"warmup", "categoria", "pagina", "extrair",
                       "fim_categoria"}
            /\ iniciadas = tentativa
            /\ Len(historico) = tentativa - 1
            /\ Len(atrasos) = tentativa - 1)

\* the third attempt has its browser open, after an attempt that raised
\* and one that returned no record, each followed by its delay
C21_Witness ==
    /\ navegador = "aberto"
    /\ tentativa = 3
    /\ historico = << [exc |-> TRUE, n |-> 0], [exc |-> FALSE, n |-> 0] >>
    /\ atrasos = << 2, 4 >>
    /\ pc = "categoria"

(***************************************************************************)
(* Properties of the run summary main prints between the N8N markers.      *)
(***************************************************************************)
\* main has returned
MainRetornou == mpc = "fim"

\* a step of the run leaves every summary already printed as it was
ResumoIntocado ==
    \A k \in DOMAIN emitidos :
        k \in DOMAIN emitidos' /\ emitidos'[k] = emitidos[k]

\* a printed summary is printed as main ends, after salvar_postgres
\* returned, and carries the crawl's records, their number, the number per
\* category and the counts salvar_postgres returned
ResumoNoFim ==
    emitidos # << >> =>
        /\ MainRetornou
        /\ Retornou
        /\ emitidos[1] = Resumo(resultado.produtos, stats)
        /\ emitidos[1].total = Len(retorno_main)
        /\ emitidos[1].stats_db.inseridos + emitidos[1].stats_db.atualizados
             + emitidos[1].stats_db.erros = emitidos[1].total

\* C22: every run of main prints the run summary exactly once, as it ends
\* and after salvar_postgres returned its counts, and no later step changes
\* it, also when the crawl returned no record or the run ended with an
\* exception main caught.
C22_ResumoEmitidoUmaVez ==
    /\ [](Len(emitidos) <= 1)
    /\ [](MainRetornou => Len(emitidos) = 1)
    /\ []ResumoNoFim
    /\ [][ResumoIntocado]_vars

\* what main does: the summary is printed exactly once by the runs whose
\* crawl returned records and whose backup file was written, and never by
\* the others, which return the empty list
ResumoSoComRegistros ==
    /\ [](Len(emitidos) <= 1)
    /\ [](MainRetornou =>
            IF resultado.tipo = "retorno" /\ resultado.produtos # << >>
               /\ retorno_main # << >>
            THEN Len(emitidos) = 1 /\ retorno_main = resultado.produtos
            ELSE emitidos = << >> /\ retorno_main = << >>)
    /\ []ResumoNoFim
    /\ [][ResumoIntocado]_vars

\* a run that printed the summary of two records, one per category, the
\* first inserted and the second, with the same link, an update of it
ResumoEmitido ==
    /\ MainRetornou
    /\ Len(emitidos) = 1
    /\ emitidos[1].total = 2
    /\ emitidos[1].categorias = << 1, 1 >>
    /\ emitidos[1].stats_db = Estatisticas(1, 1, 0)
    /\ retorno_main = resultado.produtos

\* a run that ended without a summary: the three attempts returned nothing
SemResumoSemRegistros ==
    /\ MainRetornou
    /\ emitidos = << >>
    /\ resultado.tipo = "retorno"
    /\ resultado.produtos = << >>
    /\ tentativa = MAX_RETRIES

\* a run that ended without a summary: the last attempt raised
SemResumoComExcecao ==
    /\ MainRetornou
    /\ emitidos = << >>
    /\ resultado.tipo = "excecao"

=============================================================================
